---- MODULE Spec2Model ----
(***************************************************************************)
(* Model of src/app.py: the generate -> verify -> retry pipeline           *)
(* (verify_image, generate_with_auto_fix) and the queue processor around   *)
(* it (process_and_update, auto_process_step, the queue buttons).          *)
(*                                                                         *)
(* Temperatures are integers in hundredths (0.65 is 65).  Texts are        *)
(* sequences of one-character strings over a small alphabet; a JSON        *)
(* member is one character ("P" stands for "status":"PASS", "a" for        *)
(* "reason":"vertical text", ...).                                         *)
(***************************************************************************)
EXTENDS Integers, Sequences, FiniteSets, TLC

\* ------------------------------------------------------------------ bounds
MaxRetriesBound == 2
MaxQueue == 2

\* ------------------------------------------------------- program constants
DefaultMaxRetries == 2
LowTempLimit == 50
EscapeTemp == 65
TempStep == 10
DefaultTemperature == 40
JsonFenceLen == 7
FenceLen == 3

Temperatures == {t \in 0..100 : t % TempStep = 0}
VerifyModes == {"OFF", "BASIC", "STRICT"}

NoImage == 0
NoItem == 0
Absent == "<absent>"

\* ------------------------------------------------- text helpers (str, json)
WS == " "
\* one backtick of a markdown fence
BT == "~"

RECURSIVE lstrip(_)
lstrip(s) == IF s # <<>> /\ Head(s) = WS THEN lstrip(Tail(s)) ELSE s

RECURSIVE rstrip(_)
rstrip(s) == IF s # <<>> /\ s[Len(s)] = WS THEN rstrip(SubSeq(s, 1, Len(s) - 1)) ELSE s

strip(s) == rstrip(lstrip(s))

startswith(s, p) == Len(s) >= Len(p) /\ SubSeq(s, 1, Len(p)) = p

\* Python s[lo:-hi] for lo >= 0, hi > 0
Slice(s, lo, hi) == SubSeq(s, lo + 1, Len(s) - hi)

JsonFence == <<BT, BT, BT, "j", "s", "o", "n">>
Fence == <<BT, BT, BT>>

StatusOf(c) ==
    CASE c = "P" -> "PASS"
      [] c = "F" -> "FAIL"
      [] c = "U" -> "MAYBE"
      [] OTHER -> Absent

ReasonOf(c) ==
    CASE c = "a" -> "vertical text"
      [] c = "b" -> "distortion"
      [] c = "e" -> ""
      [] OTHER -> Absent

StatusChars == {"P", "F", "U"}
ReasonChars == {"a", "b", "e"}

\* json.loads on the small alphabet: an object {[status][reason]}, the
\* array [], or a JSONDecodeError.  Surrounding whitespace is accepted.
json_loads(t) ==
    LET s == strip(t)
        inner == SubSeq(s, 2, Len(s) - 1)
    IN  IF Len(s) >= 2 /\ s[1] = "{" /\ s[Len(s)] = "}"
           /\ \/ inner = <<>>
              \/ Len(inner) = 1 /\ inner[1] \in StatusChars \cup ReasonChars
              \/ Len(inner) = 2 /\ inner[1] \in StatusChars /\ inner[2] \in ReasonChars
        THEN [kind |-> "object",
              status |-> IF inner # <<>> /\ inner[1] \in StatusChars
                         THEN StatusOf(inner[1]) ELSE Absent,
              reason |-> IF inner # <<>> /\ inner[Len(inner)] \in ReasonChars
                         THEN ReasonOf(inner[Len(inner)]) ELSE Absent]
        ELSE IF s = <<"[", "]">>
        THEN [kind |-> "array", status |-> Absent, reason |-> Absent]
        ELSE [kind |-> "JSONDecodeError", status |-> Absent, reason |-> Absent]

\* dict.get(key, default)
get(v, default) == IF v = Absent THEN default ELSE v

\* the fence stripping of verify_image
clean_text(text) ==
    LET s == strip(text)
    IN  IF startswith(s, JsonFence) THEN Slice(s, JsonFenceLen, FenceLen)
        ELSE IF startswith(s, Fence) THEN Slice(s, FenceLen, FenceLen)
        ELSE s

\* ------------------------------------------------------ verifier responses
VerifierTexts ==
    { <<"{", "P", "}">>,
      <<"{", "F", "a", "}">>,
      <<"{", "F", "e", "}">>,
      <<"{", "U", "b", "}">>,
      <<"{", "}">>,
      <<"[", "]">>,
      <<"x">>,
      <<"{", "F", "a">>,
      <<WS>>,
      <<WS, "{", "P", "}", WS>>,
      <<BT, BT, BT, "j", "s", "o", "n", WS, "{", "P", "}", WS, BT, BT, BT>>,
      <<BT, BT, BT, "j", "s", "o", "n", WS, "{", "F", "a", "}", WS, BT, BT, BT>>,
      <<BT, BT, BT, "{", "P", "}", BT, BT, BT>>,
      <<BT, BT, BT, "j", "s", "o", "n", WS, "{", "F", "a", "}">>,
      <<>> }

\* response.text is a text, or None (kind "none"); or the call raises
VerifierResponses ==
    [kind : {"text"}, text : VerifierTexts]
        \cup {[kind |-> "none", text |-> <<>>], [kind |-> "exception", text |-> <<>>]}

\* one response of each kind, for the runs started from the queue
VerifierSample ==
    { [kind |-> "text", text |-> <<"{", "P", "}">>],
      [kind |-> "text", text |-> <<"{", "F", "a", "}">>],
      [kind |-> "text", text |-> <<"x">>] }

verify_response_strict(resp) ==
    IF resp.kind = "exception"
    THEN [is_pass |-> TRUE, reason |-> "Inspector Error (Pass)"]
    ELSE IF resp.kind = "none" \/ resp.text = <<>>
    THEN [is_pass |-> TRUE, reason |-> "No Response (Pass)"]
    ELSE LET data == json_loads(clean_text(resp.text))
         IN  IF data.kind = "JSONDecodeError"
             THEN [is_pass |-> FALSE, reason |-> "JSON Error"]
             ELSE IF data.kind # "object"
             THEN [is_pass |-> TRUE, reason |-> "Inspector Error (Pass)"]
             ELSE IF data.status = "PASS"
             THEN [is_pass |-> TRUE, reason |-> "PASS"]
             ELSE [is_pass |-> FALSE, reason |-> get(data.reason, "Unknown Rejection")]

\* verify_image after the mode check, on one response of the inspector
verify_response(resp) ==
    IF resp.kind = "exception"
    THEN [is_pass |-> TRUE, reason |-> "Inspector Error (Pass)"]
    ELSE IF resp.kind = "none" \/ resp.text = <<>>
    THEN [is_pass |-> TRUE, reason |-> "No Response (Pass)"]
    ELSE LET data == json_loads(clean_text(resp.text))
         IN  IF data.kind = "JSONDecodeError"
             THEN [is_pass |-> TRUE, reason |-> "JSON Error (Pass)"]
             ELSE IF data.kind # "object"
             THEN [is_pass |-> TRUE, reason |-> "Inspector Error (Pass)"]
             ELSE IF data.status = "PASS"
             THEN [is_pass |-> TRUE, reason |-> "PASS"]
             ELSE [is_pass |-> FALSE, reason |-> get(data.reason, "Unknown Rejection")]

verify_image(mode, resp) ==
    IF mode = "OFF"
    THEN [is_pass |-> TRUE, reason |-> "Skipped (User Request)"]
    ELSE verify_response(resp)

\* ------------------------------------------------------ generator responses
RateLimitMsg == <<"429", "RESOURCE_EXHAUSTED">>
ServerErrorMsg == <<"500", "INTERNAL">>

\* a response (finish reason of the first candidate or Absent when there are
\* no candidates, an inline_data part or not, an image attribute or not), or
\* an exception with its message
GenResponses ==
    [kind : {"response"}, finish : {Absent, "STOP", "SAFETY"},
     inline : BOOLEAN, image : BOOLEAN, msg : {<<>>}]
        \cup [kind : {"exception"}, finish : {Absent}, inline : {FALSE},
              image : {FALSE}, msg : {RateLimitMsg, ServerErrorMsg}]

\* one response of each kind, for the runs started from the queue
GenSample ==
    { [kind |-> "response", finish |-> "STOP", inline |-> TRUE, image |-> FALSE, msg |-> <<>>],
      [kind |-> "response", finish |-> "SAFETY", inline |-> FALSE, image |-> FALSE, msg |-> <<>>],
      [kind |-> "response", finish |-> "STOP", inline |-> FALSE, image |-> FALSE, msg |-> <<>>],
      [kind |-> "exception", finish |-> Absent, inline |-> FALSE, image |-> FALSE, msg |-> RateLimitMsg],
      [kind |-> "exception", finish |-> Absent, inline |-> FALSE, image |-> FALSE, msg |-> ServerErrorMsg] }

\* "429" in str(e)
Has429(msg) == \E i \in 1..Len(msg) : msg[i] = "429"

is_rate_limit_any(msg) == TRUE

\* the except clause: a rate-limit error is waited out and the loop goes on
is_rate_limit(msg) == Has429(msg)

gen_result_reraise(resp) ==
    IF resp.kind = "exception"
    THEN IF is_rate_limit(resp.msg) THEN "rate_limit" ELSE "unhandled"
    ELSE IF resp.finish # Absent /\ resp.finish # "STOP" THEN "blocked"
    ELSE IF resp.inline \/ resp.image THEN "image"
    ELSE "no_image"

gen_result_unchecked(resp) ==
    IF resp.kind = "exception"
    THEN IF is_rate_limit(resp.msg) THEN "rate_limit" ELSE "api_error"
    ELSE IF resp.finish # Absent /\ resp.finish # "STOP" THEN "blocked"
    ELSE "image"

\* what one generation call comes to in generate_with_auto_fix
gen_result(resp) ==
    IF resp.kind = "exception"
    THEN IF is_rate_limit(resp.msg) THEN "rate_limit" ELSE "api_error"
    ELSE IF resp.finish # Absent /\ resp.finish # "STOP" THEN "blocked"
    ELSE IF resp.inline \/ resp.image THEN "image"
    ELSE "no_image"

in_range_extra(att, mr) == att <= mr + 1

in_range_short(att, mr) == att < mr

\* for attempt in range(max_retries + 1)
in_range(att, mr) == att < mr + 1

should_verify_last(att, mr) == att <= mr

\* the last attempt is returned without inspection
should_verify(att, mr) == att < mr

accepts_inverted(v) == ~v.is_pass

accepts_any(v) == TRUE

\* if is_pass: return result_img, None
accepts(v) == v.is_pass

retry_budget_any_mode(use_autofix, mode) ==
    IF use_autofix THEN DefaultMaxRetries ELSE 0

\* max_retries as process_and_update sets it
retry_budget(use_autofix, mode) ==
    IF use_autofix /\ mode # "OFF" THEN DefaultMaxRetries ELSE 0

current_temp_first_retry(att, temp) ==
    IF att = 1 /\ temp < LowTempLimit THEN EscapeTemp ELSE temp

current_temp_max(att, temp) ==
    IF att > 0 /\ temp < EscapeTemp THEN EscapeTemp ELSE temp

current_temp(att, temp) ==
    IF att > 0 /\ temp < LowTempLimit THEN EscapeTemp ELSE temp

retry_instruction_no_reason(att, le) ==
    IF att > 0 /\ le # ""
    THEN <<"PREVIOUS REJECTION REASON: ", "You failed the Quality Assurance check.">>
    ELSE <<>>

retry_instruction(att, le) ==
    IF att > 0 /\ le # ""
    THEN <<"PREVIOUS REJECTION REASON: ", le, "You failed the Quality Assurance check.">>
    ELSE <<>>

contents(att, le) == <<"prompt", "css_instruction">> \o retry_instruction(att, le)

\* ------------------------------------------------------------------- state
VARIABLES
    job_queue,        \* st.session_state.job_queue
    results,          \* st.session_state.results
    is_auto_running,  \* st.session_state.is_auto_running
    next_id,          \* ids handed out so far (uuid4 is fresh each time)
    notice,           \* the last st.error / st.toast of the queue processor
    pc,               \* "idle", "generate", "verify", "returned", "raised",
                      \* "not_loaded" (process_and_update returned at once)
    cur_item,         \* id of the item process_and_update works on, or NoItem
    caller,           \* who called process_and_update: "auto", "button" or ""
    max_retries,
    temperature,
    verify_mode,
    attempt,
    last_error,
    result_img,
    outcome,          \* the pair generate_with_auto_fix returned
    log               \* the calls of the current run, in order

queue_vars == <<job_queue, results, is_auto_running, next_id, notice>>
param_vars == <<max_retries, temperature, verify_mode>>
run_vars == <<pc, cur_item, caller, attempt, last_error, result_img, outcome, log>>
vars == <<job_queue, results, is_auto_running, next_id, notice,
          pc, cur_item, caller, max_retries, temperature, verify_mode,
          attempt, last_error, result_img, outcome, log>>

NoOutcome == [img |-> NoImage, err |-> Absent]

InRun == pc \in {"generate", "verify"}

\* ------------------------------------------------ queue / results updates
record_result_by_name(img, err) ==
    IF cur_item = NoItem
    THEN UNCHANGED <<job_queue, results>>
    ELSE LET item == CHOOSE x \in {job_queue[i] : i \in DOMAIN job_queue} : x.id = cur_item
         IN  IF img # NoImage
             THEN /\ results' = Append(results,
                        [name |-> item.name, original_path |-> item.image_path,
                         result_path |-> img])
                  /\ job_queue' = SelectSeq(job_queue, LAMBDA x : x.name # item.name)
             ELSE /\ job_queue' = [i \in DOMAIN job_queue |->
                        IF job_queue[i].name = item.name
                        THEN [job_queue[i] EXCEPT !.status = "error", !.error_msg = err]
                        ELSE job_queue[i]]
                  /\ UNCHANGED results

\* process_and_update after generate_with_auto_fix returned (img, err)
record_result(img, err) ==
    IF cur_item = NoItem
    THEN UNCHANGED <<job_queue, results>>
    ELSE LET item == CHOOSE x \in {job_queue[i] : i \in DOMAIN job_queue} : x.id = cur_item
         IN  IF img # NoImage
             THEN /\ results' = Append(results,
                        [name |-> item.name, original_path |-> item.image_path,
                         result_path |-> img])
                  /\ job_queue' = SelectSeq(job_queue, LAMBDA x : x.id # cur_item)
             ELSE /\ job_queue' = [i \in DOMAIN job_queue |->
                        IF job_queue[i].id = cur_item
                        THEN [job_queue[i] EXCEPT !.status = "error", !.error_msg = err]
                        ELSE job_queue[i]]
                  /\ UNCHANGED results

\* generate_with_auto_fix returns (img, err) to its caller
Return(img, err) ==
    /\ pc' = "returned"
    /\ outcome' = [img |-> img, err |-> err]
    /\ record_result(img, err)
    /\ UNCHANGED <<is_auto_running, next_id, notice>>

\* ---------------------------------------------------- generate_with_auto_fix
\* entry: client and image bytes are prepared outside the try block
Enter(item, mr, temp, mode, clientOk) ==
    /\ cur_item' = item
    /\ max_retries' = mr
    /\ temperature' = temp
    /\ verify_mode' = mode
    /\ attempt' = 0
    /\ last_error' = ""
    /\ result_img' = NoImage
    /\ outcome' = NoOutcome
    /\ log' = <<>>
    /\ pc' = IF clientOk THEN "generate" ELSE "raised"

\* continue: the next iteration, or the end of the loop
Continue ==
    IF in_range(attempt + 1, max_retries)
    THEN /\ attempt' = attempt + 1
         /\ pc' = "generate"
         /\ UNCHANGED <<outcome, queue_vars>>
    ELSE /\ Return(NoImage, "Unknown Error")
         /\ UNCHANGED attempt

GenEntry(resp, img) ==
    [kind |-> "gen", item |-> cur_item, attempt |-> attempt,
     temp |-> current_temp(attempt, temperature),
     prompt |-> contents(attempt, last_error),
     finish |-> resp.finish, payload |-> (resp.inline \/ resp.image),
     msg |-> resp.msg, img |-> img,
     verdict |-> "", reason |-> "", text |-> <<>>]

\* one iteration of the loop up to the verification (or to the return)
GenerationCall ==
    /\ pc = "generate"
    /\ \E resp \in (IF cur_item = NoItem THEN GenResponses ELSE GenSample) :
         LET r == gen_result(resp)
             img == IF r = "image" THEN attempt + 1 ELSE NoImage
         IN  /\ log' = Append(log, GenEntry(resp, img))
             /\ CASE r = "blocked" ->
                       /\ Return(NoImage, "Safety Filter Blocked")
                       /\ UNCHANGED <<attempt, last_error, result_img>>
                  [] r = "no_image" ->
                       /\ Return(NoImage, "No Image Generated")
                       /\ UNCHANGED <<attempt, last_error, result_img>>
                  [] r = "api_error" ->
                       /\ Return(NoImage, "API Error")
                       /\ UNCHANGED <<attempt, last_error, result_img>>
                  [] r = "rate_limit" ->
                       /\ Continue
                       /\ UNCHANGED <<last_error, result_img>>
                  [] r = "image" ->
                       IF should_verify(attempt, max_retries)
                       THEN /\ pc' = "verify"
                            /\ result_img' = img
                            /\ UNCHANGED <<attempt, last_error, outcome, queue_vars>>
                       ELSE /\ result_img' = img
                            /\ Return(img, "Max Retries Reached")
                            /\ UNCHANGED <<attempt, last_error>>
                  [] OTHER ->
                       \* nothing handles it: the exception leaves the function
                       /\ pc' = "raised"
                       /\ UNCHANGED <<attempt, last_error, result_img, outcome, queue_vars>>
    /\ UNCHANGED <<cur_item, caller, param_vars>>

VerEntry(resp, v) ==
    [kind |-> "ver", item |-> cur_item, attempt |-> attempt, temp |-> 0, prompt |-> <<>>,
     finish |-> Absent, payload |-> FALSE, msg |-> <<>>, img |-> result_img,
     verdict |-> IF v.is_pass THEN "pass" ELSE "fail",
     reason |-> v.reason,
     text |-> IF verify_mode = "OFF" THEN <<"skipped">>
              ELSE IF resp.kind = "text" THEN resp.text ELSE <<resp.kind>>]

\* the call of verify_image and what the loop does with its verdict
VerificationCall ==
    /\ pc = "verify"
    /\ \E resp \in (IF cur_item = NoItem THEN VerifierResponses ELSE VerifierSample) :
         LET v == verify_image(verify_mode, resp)
         IN  /\ log' = Append(log, VerEntry(resp, v))
             /\ IF accepts(v)
                THEN /\ Return(result_img, Absent)
                     /\ UNCHANGED <<attempt, last_error>>
                ELSE /\ last_error' = v.reason
                     /\ Continue
    /\ UNCHANGED <<cur_item, caller, result_img, param_vars>>

\* --------------------------------------- the controller called on its own
CtlInit ==
    /\ job_queue = <<>>
    /\ results = <<>>
    /\ is_auto_running = FALSE
    /\ next_id = 0
    /\ notice = ""
    /\ pc = "idle"
    /\ cur_item = NoItem
    /\ caller = ""
    /\ max_retries \in 0..MaxRetriesBound
    /\ temperature \in Temperatures
    /\ verify_mode \in VerifyModes
    /\ attempt = 0
    /\ last_error = ""
    /\ result_img = NoImage
    /\ outcome = NoOutcome
    /\ log = <<>>

CtlCall ==
    /\ pc = "idle"
    /\ \E clientOk \in BOOLEAN :
         Enter(NoItem, max_retries, temperature, verify_mode, clientOk)
    /\ UNCHANGED <<caller, queue_vars>>

CtlNext == CtlCall \/ GenerationCall \/ VerificationCall

SpecCtl == CtlInit /\ [][CtlNext]_vars

\* ------------------------------------------------------ the queue processor
Names == {"a.png"}
\* the slider positions tried from the queue: the default and one above
\* the escalation limit
SidebarTemperatures == {DefaultTemperature, DefaultTemperature + 2 * TempStep}
\* the inspector options tried from the queue: off, and the default rubric
\* (the strict rubric differs in the inspector's prompt only)
SidebarModes == {"OFF", "BASIC"}

Init ==
    /\ job_queue = <<>>
    /\ results = <<>>
    /\ is_auto_running = FALSE
    /\ next_id = 0
    /\ notice = ""
    /\ pc = "idle"
    /\ cur_item = NoItem
    /\ caller = ""
    /\ max_retries = DefaultMaxRetries
    /\ temperature = DefaultTemperature
    /\ verify_mode = "BASIC"
    /\ attempt = 0
    /\ last_error = ""
    /\ result_img = NoImage
    /\ outcome = NoOutcome
    /\ log = <<>>

\* a new script run: the locals of the previous one are gone
NewScriptRun ==
    /\ pc' = "idle"
    /\ cur_item' = NoItem
    /\ caller' = ""
    /\ max_retries' = DefaultMaxRetries
    /\ temperature' = DefaultTemperature
    /\ verify_mode' = "BASIC"
    /\ attempt' = 0
    /\ last_error' = ""
    /\ result_img' = NoImage
    /\ outcome' = NoOutcome
    /\ log' = <<>>

pending == SelectSeq(job_queue, LAMBDA i : i.status = "pending")

\* A widget event that arrives while a script run is inside
\* process_and_update stops that run at its next Streamlit call (the status
\* messages come before every return and before the bookkeeping), and the
\* new script run handles the event: the button actions below are enabled
\* during a run too, and then abandon it.

\* handle_file_upload: one image that loads is appended as a pending item
Upload ==
    /\ next_id < MaxQueue
    /\ \E n \in Names :
         job_queue' = Append(job_queue,
             [id |-> next_id + 1, name |-> n, image_path |-> next_id + 1,
              status |-> "pending", error_msg |-> Absent])
    /\ next_id' = next_id + 1
    /\ UNCHANGED <<results, is_auto_running, notice>>
    /\ NewScriptRun

\* render_queue: the "run all" button
StartAuto ==
    /\ job_queue # <<>>
    /\ ~is_auto_running
    /\ pending # <<>>
    /\ is_auto_running' = TRUE
    /\ UNCHANGED <<job_queue, results, next_id, notice>>
    /\ NewScriptRun

\* render_queue: the "stop" button
StopAuto ==
    /\ job_queue # <<>>
    /\ is_auto_running
    /\ is_auto_running' = FALSE
    /\ UNCHANGED <<job_queue, results, next_id, notice>>
    /\ NewScriptRun

\* process_and_update up to the call of generate_with_auto_fix, with the
\* sidebar's settings of this script run
process_and_update(item, who) ==
    \/ \* the source image no longer loads: st.error and return
       /\ notice' = "expired"
       /\ UNCHANGED <<job_queue, results, is_auto_running, next_id>>
       /\ pc' = "not_loaded"
       /\ cur_item' = item.id
       /\ caller' = who
       /\ max_retries' = DefaultMaxRetries
       /\ temperature' = DefaultTemperature
       /\ verify_mode' = "BASIC"
       /\ attempt' = 0
       /\ last_error' = ""
       /\ result_img' = NoImage
       /\ outcome' = NoOutcome
       /\ log' = <<>>
    \/ \E temp \in SidebarTemperatures, use_autofix \in BOOLEAN,
          mode \in SidebarModes, clientOk \in BOOLEAN :
           /\ Enter(item.id, retry_budget(use_autofix, mode), temp, mode, clientOk)
           /\ caller' = who
           /\ UNCHANGED queue_vars

\* render_queue: the run button of one item
RunItem ==
    \E i \in DOMAIN job_queue : process_and_update(job_queue[i], "button")

may_auto_start_always(running) == TRUE

\* if not st.session_state.is_auto_running: return
may_auto_start(running) == running

pick_last(p) == p[Len(p)]

\* item = pending[0]
pick(p) == p[1]

\* called by main at the end of a script run
auto_process_step ==
    /\ ~InRun
    /\ may_auto_start(is_auto_running)
    /\ IF pending = <<>>
       THEN /\ is_auto_running' = FALSE
            /\ notice' = "all done"
            /\ UNCHANGED <<job_queue, results, next_id>>
            /\ NewScriptRun
       ELSE process_and_update(pick(pending), "auto")

Next ==
    \/ Upload
    \/ StartAuto
    \/ StopAuto
    \/ RunItem
    \/ auto_process_step
    \/ GenerationCall
    \/ VerificationCall

Spec == Init /\ [][Next]_vars

\* ------------------------------------------------------------- properties
GenIdx == {i \in DOMAIN log : log[i].kind = "gen"}
VerIdx == {i \in DOMAIN log : log[i].kind = "ver"}
Returned == pc = "returned"
LastGen == CHOOSE i \in GenIdx : \A j \in GenIdx : j <= i

Elems(q) == {q[i] : i \in DOMAIN q}

\* what the generator answered, read from the logged response itself
Raised(e) == e.msg # <<>>
RateLimited(e) == Raised(e) /\ "429" \in Elems(e.msg)
ApiError(e) == Raised(e) /\ "429" \notin Elems(e.msg)
Blocked(e) == ~Raised(e) /\ e.finish \notin {Absent, "STOP"}
NoPayload(e) == ~Raised(e) /\ e.finish \in {Absent, "STOP"} /\ ~e.payload
Produced(e) == ~Raised(e) /\ e.finish \in {Absent, "STOP"} /\ e.payload
TerminalFailure(e) == Blocked(e) \/ NoPayload(e) \/ ApiError(e)

Success(o) == o.img # NoImage /\ o.err = Absent
SuccessUnverified(o) == o.img # NoImage /\ o.err = "Max Retries Reached"
Failed(o) == o.img = NoImage /\ o.err \notin {Absent, ""}

\* C1: one run makes at most max_retries + 1 generation calls and at most
\* max_retries verification calls, whatever the generator and the verifier
\* answer (rate-limit errors included).
C1_BoundedAttempts ==
    /\ Cardinality(GenIdx) <= max_retries + 1
    /\ Cardinality(VerIdx) <= max_retries

C1_Witness ==
    /\ Returned
    /\ max_retries >= 1
    /\ Cardinality(GenIdx) = max_retries + 1
    /\ Cardinality(VerIdx) = max_retries

\* C2 as stated: once some generation call of the run has produced an image,
\* the returned outcome carries an image.
C2_NeverDropped ==
    (Returned /\ \E i \in GenIdx : Produced(log[i])) => outcome.img # NoImage

\* C2 amended: when the most recent generation call of the run has produced
\* an image, the returned outcome carries that image.
C2_LastImageKept ==
    (Returned /\ GenIdx # {} /\ Produced(log[LastGen]))
        => (outcome.img # NoImage /\ outcome.img = log[LastGen].img)

C2_Witness ==
    /\ Returned
    /\ Cardinality(GenIdx) >= 2
    /\ Produced(log[LastGen])
    /\ \E i \in VerIdx : log[i].verdict = "fail"
    /\ outcome.img = log[LastGen].img

\* C3: a generation call that ends in a content-policy block, a response
\* without an image or a non-rate-limit API error is the last call of the
\* run: the run has returned Failed (no image, a reason), and neither a
\* further generation call nor a verification call follows.
C3_TerminalFailureStops ==
    \A i \in GenIdx :
        TerminalFailure(log[i])
            => /\ i = Len(log)
               /\ Returned
               /\ Failed(outcome)

C3_Witness ==
    /\ Returned
    /\ \E i \in GenIdx :
          /\ TerminalFailure(log[i])
          /\ log[i].attempt > 0
          /\ log[i].attempt < max_retries

\* the verifier answers that do not decode as JSON once the markdown fence
\* is taken off, and the empty, missing and raised ones
UndecodableTexts ==
    { <<"x">>,
      <<"{", "F", "a">>,
      <<WS>>,
      <<BT, BT, BT, "j", "s", "o", "n", WS, "{", "F", "a", "}">> }
NoAnswerTexts == { <<>>, <<"none">>, <<"exception">> }

\* C4: verify_image fails open.  When the verifier's text does not decode as
\* JSON (after the markdown fence is stripped), is empty or missing, or the
\* verifier call raises, the verdict is Pass, nothing is raised, and the run
\* returns Success with the image just generated, without another attempt.
C4_FailOpen ==
    /\ \A i \in VerIdx :
          log[i].text \in UndecodableTexts \cup NoAnswerTexts
              => /\ log[i].verdict = "pass"
                 /\ i = Len(log)
                 /\ Returned
                 /\ Success(outcome)
                 /\ i > 1 /\ Produced(log[i - 1])
                 /\ outcome.img = log[i - 1].img
    /\ (pc = "raised" => log = <<>>)

C4_Witness ==
    /\ Returned
    /\ \E i \in VerIdx : log[i].text \in UndecodableTexts /\ log[i].attempt > 0
    /\ Success(outcome)

\* the verifier answers whose JSON object has status "FAIL"
StatusFailTexts ==
    { <<"{", "F", "a", "}">>,
      <<"{", "F", "e", "}">>,
      <<BT, BT, BT, "j", "s", "o", "n", WS, "{", "F", "a", "}", WS, BT, BT, BT>> }

\* C5: a Fail verdict (and so a retry) arises only from a verifier answer
\* whose status is "FAIL"; an object with a missing or unrecognised status
\* yields Pass.
C5_FailOnlyOnStatusFail ==
    \A i \in VerIdx : log[i].verdict = "fail" => log[i].text \in StatusFailTexts

\* C6: a Pass verdict at attempt k < max_retries ends the run: it is the
\* last call, and the run has returned Success with the image of attempt k.
C6_EarlyStopOnPass ==
    \A i \in VerIdx :
        (log[i].verdict = "pass" /\ log[i].attempt < max_retries)
            => /\ i = Len(log)
               /\ Returned
               /\ Success(outcome)
               /\ i > 1
               /\ log[i - 1].kind = "gen"
               /\ log[i - 1].attempt = log[i].attempt
               /\ Produced(log[i - 1])
               /\ outcome.img = log[i - 1].img

C6_Witness ==
    /\ Returned
    /\ Success(outcome)
    /\ log # <<>>
    /\ log[Len(log)].kind = "ver"
    /\ log[Len(log)].verdict = "pass"
    /\ log[Len(log)].attempt > 0

Max(a, b) == IF a >= b THEN a ELSE b

\* C7 as stated: attempt 0 uses the configured temperature and every later
\* attempt uses max(configured temperature, escape value).
C7_TemperatureIsMax ==
    \A i \in GenIdx :
        log[i].temp = IF log[i].attempt = 0 THEN temperature
                      ELSE Max(temperature, EscapeTemp)

\* C7 amended: attempt 0 uses the configured temperature; a later attempt
\* uses the escape value when the configured temperature is below the low
\* limit (0.5) and the configured temperature otherwise, which is
\* max(configured, escape) except for configured values in [0.5, 0.65).
C7_TemperatureEscalation ==
    \A i \in GenIdx :
        log[i].temp = IF log[i].attempt > 0 /\ temperature < LowTempLimit
                      THEN EscapeTemp
                      ELSE temperature

C7_Witness ==
    \E i, j \in GenIdx :
        /\ log[i].attempt = 0 /\ log[i].temp = temperature
        /\ log[j].attempt > 0 /\ log[j].temp = EscapeTemp
        /\ temperature < LowTempLimit

\* the Fail verdicts before call j, and the latest of them
FailsBefore(j) == {i \in VerIdx : i < j /\ log[i].verdict = "fail"}
LatestFail(j) == CHOOSE i \in FailsBefore(j) : \A k \in FailsBefore(j) : k <= i

\* C8: after a Fail verdict with a non-empty reason, the prompt of every
\* later generation call contains that reason literally, until another Fail
\* verdict replaces it; the prompt of attempt 0 has no failure section.
C8_FeedbackInjection ==
    \A j \in GenIdx :
        /\ (FailsBefore(j) # {} /\ log[LatestFail(j)].reason # "")
              => /\ log[LatestFail(j)].reason \in Elems(log[j].prompt)
                 /\ "PREVIOUS REJECTION REASON: " \in Elems(log[j].prompt)
        /\ log[j].attempt = 0 => log[j].prompt = <<"prompt", "css_instruction">>

C8_Witness ==
    \E j \in GenIdx :
        /\ j > 2
        /\ log[j - 1].kind = "gen" /\ RateLimited(log[j - 1])
        /\ log[j - 2].kind = "ver" /\ log[j - 2].verdict = "fail"
        /\ log[j - 2].reason = "vertical text"
        /\ "vertical text" \in Elems(log[j].prompt)

\* C9: verification is invoked only at attempts below max_retries; an image
\* produced at attempt max_retries is returned at once, unverified, with
\* "Max Retries Reached".
C9_LastAttemptUnverified ==
    /\ \A i \in VerIdx : log[i].attempt < max_retries
    /\ \A i \in GenIdx :
          (Produced(log[i]) /\ log[i].attempt = max_retries)
              => /\ i = Len(log)
                 /\ Returned
                 /\ outcome = [img |-> log[i].img, err |-> "Max Retries Reached"]

C9_Witness ==
    /\ Returned
    /\ max_retries >= 1
    /\ log # <<>>
    /\ Produced(log[Len(log)])
    /\ log[Len(log)].kind = "gen"
    /\ log[Len(log)].attempt = max_retries
    /\ SuccessUnverified(outcome)

\* the calls that reached the inspector model
VerifierCalls == {i \in VerIdx : log[i].text # <<"skipped">>}

\* C10: with verify mode OFF, a run started by process_and_update makes one
\* generation call and no verifier call, and returns SuccessUnverified when
\* that call produced an image and Failed otherwise, never Success.
C10_VerifyOff ==
    (cur_item # NoItem /\ verify_mode = "OFF")
        => /\ VerifierCalls = {}
           /\ Cardinality(GenIdx) <= 1
           /\ Returned
                => /\ Cardinality(GenIdx) = 1
                   /\ IF Produced(log[1])
                      THEN SuccessUnverified(outcome) /\ outcome.img = log[1].img
                      ELSE Failed(outcome)
                   /\ ~Success(outcome)

C10_Witness ==
    /\ cur_item # NoItem
    /\ verify_mode = "OFF"
    /\ Returned
    /\ SuccessUnverified(outcome)

\* C11 as stated: a rate-limit error does not use up an attempt; the
\* generation call after it is made as the same attempt, at the same
\* temperature.
C11_RateLimitKeepsAttempt ==
    \A i \in GenIdx :
        (RateLimited(log[i]) /\ i < Len(log))
            => /\ log[i + 1].kind = "gen"
               /\ log[i + 1].attempt = log[i].attempt
               /\ log[i + 1].temp = log[i].temp

\* C12: over the generation calls of one run the temperature never
\* decreases; once the escape value is used, the later calls use it too.
C12_TemperatureMonotonic ==
    \A i, j \in GenIdx : i < j => log[i].temp <= log[j].temp

C12_Witness ==
    \E i, j, k \in GenIdx :
        /\ i < j /\ j < k
        /\ log[i].temp < EscapeTemp
        /\ log[j].temp = EscapeTemp
        /\ log[k].temp = EscapeTemp

AllProduced == \A i \in GenIdx : Produced(log[i])
AllFail == \A i \in VerIdx : log[i].verdict = "fail"

\* C13: a Fail verdict at attempt n < max_retries is followed by the
\* generation call of attempt n + 1, never by a return; when every
\* generation produces an image and every verdict is Fail, the run ends
\* after max_retries + 1 generations and max_retries verifications with
\* SuccessUnverified and the image of the last attempt.
C13_FailRetries ==
    /\ \A i \in VerIdx :
          (log[i].verdict = "fail" /\ log[i].attempt < max_retries)
              => IF i = Len(log)
                 THEN pc = "generate" /\ attempt = log[i].attempt + 1
                 ELSE /\ log[i + 1].kind = "gen"
                      /\ log[i + 1].attempt = log[i].attempt + 1
    /\ (Returned /\ GenIdx # {} /\ AllProduced /\ AllFail)
          => /\ Cardinality(GenIdx) = max_retries + 1
             /\ Cardinality(VerIdx) = max_retries
             /\ SuccessUnverified(outcome)
             /\ log[LastGen].attempt = max_retries
             /\ outcome.img = log[LastGen].img

C13_Witness ==
    /\ Returned
    /\ max_retries >= 2
    /\ AllProduced
    /\ AllFail
    /\ Cardinality(VerIdx) = max_retries
    /\ SuccessUnverified(outcome)

TypedOutcome(o) == Success(o) \/ SuccessUnverified(o) \/ Failed(o)

\* C14: whatever the generator and the verifier answer, the loop ends after
\* at most 2 * max_retries + 1 calls, it can always take its next step until
\* then, what it returns is (image, None), (image, "Max Retries Reached") or
\* (None, non-empty reason), and no exception of a call leaves the function.
C14_TypedOutcome ==
    /\ Returned => TypedOutcome(outcome)
    /\ pc = "raised" => log = <<>>
    /\ Len(log) <= 2 * max_retries + 1
    /\ InRun => ENABLED (GenerationCall \/ VerificationCall)
    /\ (pc \in {"generate", "verify", "returned"} /\ Len(log) = 2 * max_retries + 1)
          => Returned

C14_Witness ==
    /\ Returned
    /\ Success(outcome)
    /\ \E i \in GenIdx : RateLimited(log[i])
    /\ \E i \in VerIdx : log[i].text = <<"exception">>

ItemsWithId(id) == {i \in DOMAIN job_queue : job_queue[i].id = id}

\* C15 as stated (its safety part): when processing of an item has ended
\* without a result image, the item is in the queue with status 'error'.
C15_NoImageMarksError ==
    (cur_item # NoItem /\ pc \in {"returned", "not_loaded"} /\ outcome.img = NoImage)
        => \E i \in ItemsWithId(cur_item) : job_queue[i].status = "error"

\* C16: every verification comes right after the generation of the same
\* attempt and inspects the image that generation produced; a generation of
\* attempt n + 1 comes right after the Fail verdict of attempt n, or after
\* the rate-limited generation of attempt n; all the calls of a run belong to
\* the one item being processed.
C16_CallOrder ==
    /\ \A i \in VerIdx :
          /\ i > 1
          /\ log[i - 1].kind = "gen"
          /\ log[i - 1].attempt = log[i].attempt
          /\ Produced(log[i - 1])
          /\ log[i].img = log[i - 1].img
    /\ \A j \in GenIdx :
          IF j = 1
          THEN log[j].attempt = 0
          ELSE /\ log[j].attempt = log[j - 1].attempt + 1
               /\ \/ log[j - 1].kind = "ver" /\ log[j - 1].verdict = "fail"
                  \/ log[j - 1].kind = "gen" /\ RateLimited(log[j - 1])
    /\ \A i \in DOMAIN log : log[i].item = cur_item /\ cur_item # NoItem
    /\ pc = "verify"
          => /\ log # <<>>
             /\ log[Len(log)].kind = "gen"
             /\ Produced(log[Len(log)])

C16_Witness ==
    /\ cur_item # NoItem
    /\ Returned
    /\ Len(log) = 4
    /\ log[2].kind = "ver" /\ log[2].verdict = "fail"
    /\ log[3].kind = "gen" /\ RateLimited(log[3])
    /\ log[4].kind = "gen" /\ Produced(log[4])

Ids(q) == [i \in DOMAIN q |-> q[i].id]

\* C17: an item started by auto_process_step is 'pending' and no item before
\* it in job_queue is 'pending'; a run that ends in error leaves the order of
\* the queue as it was.
C17_FIFO ==
    /\ [](  (caller = "auto" /\ pc \in {"generate", "verify", "raised", "not_loaded"})
            => \E i \in ItemsWithId(cur_item) :
                  /\ job_queue[i].status = "pending"
                  /\ \A j \in 1..(i - 1) : job_queue[j].status # "pending")
    /\ [][ (InRun /\ pc' = "returned" /\ outcome'.img = NoImage)
              => Ids(job_queue') = Ids(job_queue) ]_vars

C17_Witness ==
    /\ caller = "auto"
    /\ InRun
    /\ Len(job_queue) >= 2
    /\ job_queue[1].status = "error"
    /\ cur_item = job_queue[2].id

PendingIds(q) == {q[i].id : i \in {k \in DOMAIN q : q[k].status = "pending"}}

\* no item is started by auto_process_step while is_auto_running is False,
\* and the pending items stay pending unless a run button starts them
StoppedStaysStopped ==
    /\ [](caller = "auto" => is_auto_running)
    /\ [][ (~is_auto_running /\ caller' # "button")
              => PendingIds(job_queue) \subseteq PendingIds(job_queue') ]_vars

AllRateLimited == \A i \in DOMAIN log : log[i].kind = "gen" /\ RateLimited(log[i])

\* C19: when every generation call fails with a rate-limit error, the run
\* goes on until it has made max_retries + 1 generation calls, then returns
\* Failed; it makes no verification call.
C19_RateLimitExhausted ==
    (log # <<>> /\ AllRateLimited)
        => IF Len(log) = max_retries + 1
           THEN Returned /\ Failed(outcome)
           ELSE Len(log) < max_retries + 1 /\ pc = "generate"

C19_Witness ==
    /\ max_retries >= 1
    /\ AllRateLimited
    /\ Len(log) = max_retries + 1
    /\ Returned
    /\ Failed(outcome)

\* C20: a returned image is the one the most recent generation call
\* produced; the outcome is Success exactly when the last call of the run
\* was a verification of that image with verdict Pass; an image returned as
\* SuccessUnverified was never given to the verifier.
C20_ReturnedImage ==
    Returned =>
        /\ outcome.img # NoImage
              => /\ GenIdx # {}
                 /\ Produced(log[LastGen])
                 /\ outcome.img = log[LastGen].img
        /\ Success(outcome)
              <=> /\ log # <<>>
                  /\ log[Len(log)].kind = "ver"
                  /\ log[Len(log)].verdict = "pass"
                  /\ log[Len(log)].img = log[LastGen].img
        /\ SuccessUnverified(outcome)
              => \A i \in VerIdx : log[i].img # outcome.img

C20_Witness ==
    /\ Returned
    /\ SuccessUnverified(outcome)
    /\ \E i \in VerIdx : log[i].verdict = "fail"

\* position in job_queue of the item being processed
CurPos == CHOOSE i \in DOMAIN job_queue : job_queue[i].id = cur_item

\* q without its k-th element
Without(q, k) == [i \in 1..(Len(q) - 1) |-> IF i < k THEN q[i] ELSE q[i + 1]]

\* the step on which generate_with_auto_fix hands its outcome to
\* process_and_update
Records == InRun /\ cur_item # NoItem /\ pc' = "returned"

\* C21: when the outcome carries an image, one entry for the item is
\* appended to results and that item alone leaves job_queue; when the outcome
\* is Failed, results is unchanged and the item stays where it is with status
\* 'error', the failure reason as error_msg and its id, name and image path
\* unchanged; the other items are untouched in both cases, and no item
\* pending in the queue has an entry in results.
C21_Bookkeeping ==
    /\ [](\A i \in DOMAIN job_queue, k \in DOMAIN results :
              results[k].original_path # job_queue[i].image_path)
    /\ [][ Records =>
             IF outcome'.img # NoImage
             THEN /\ Len(results') = Len(results) + 1
                  /\ \A k \in DOMAIN results : results'[k] = results[k]
                  /\ results'[Len(results')].name = job_queue[CurPos].name
                  /\ results'[Len(results')].original_path = job_queue[CurPos].image_path
                  /\ results'[Len(results')].result_path = outcome'.img
                  /\ job_queue' = Without(job_queue, CurPos)
             ELSE /\ results' = results
                  /\ Len(job_queue') = Len(job_queue)
                  /\ \A i \in DOMAIN job_queue :
                        IF i = CurPos
                        THEN /\ job_queue'[i].status = "error"
                             /\ job_queue'[i].error_msg = outcome'.err
                             /\ job_queue'[i].id = job_queue[i].id
                             /\ job_queue'[i].name = job_queue[i].name
                             /\ job_queue'[i].image_path = job_queue[i].image_path
                        ELSE job_queue'[i] = job_queue[i] ]_vars

C21_Witness ==
    /\ Returned
    /\ Failed(outcome)
    /\ results # <<>>
    /\ \E i \in DOMAIN job_queue :
          /\ job_queue[i].id = cur_item
          /\ job_queue[i].status = "error"
          /\ job_queue[i].error_msg = outcome.err

\* C22 as stated: a generation call is sent at a temperature other than the
\* configured one only after a Fail verdict of the same run, and a call made
\* before any Fail verdict has a prompt without a failure-reason section.
C22_EscalationOnlyAfterFail ==
    \A j \in GenIdx :
        /\ log[j].temp # temperature => FailsBefore(j) # {}
        /\ FailsBefore(j) = {} => log[j].prompt = <<"prompt", "css_instruction">>

====
